---- MODULE Spec2Model ----
(***************************************************************************)
(* Model of the submission store of app.py: save_submission,               *)
(* list_submissions, load_submission, and the Streamlit script that calls  *)
(* them (history panel and run handler).                                   *)
(*                                                                         *)
(* Python str values are sequences of code points, so that the             *)
(* lexicographic order files.sort(reverse=True) uses is the order of the   *)
(* model.  A file's content is the sequence of chunks json.dump writes     *)
(* (whitespace chunks, which json.load skips, are left out); string        *)
(* chunks hold the escaped text, number chunks the decimal digits.         *)
(***************************************************************************)
EXTENDS Integers, Sequences, FiniteSets, TLC

(* ------------------------------------------------------------------ *)
(* Bounds of the model                                                 *)
(* ------------------------------------------------------------------ *)
MaxTicks == 1
MaxSaves == 2
MaxLimit == 3
BufferSize == 32
StartSecond == 86398

(* ------------------------------------------------------------------ *)
(* Python values                                                        *)
(* ------------------------------------------------------------------ *)
PyStr(s) == [t |-> "str", s |-> s]
PyInt(n) == [t |-> "int", n |-> n]
PyDict(kv) == [t |-> "dict", kv |-> kv]
PyNone == [t |-> "None"]

Min(a, b) == IF a <= b THEN a ELSE b

(* str comparison: the first code point that differs decides, and a     *)
(* proper prefix is smaller                                             *)
StrLess(a, b) ==
    LET differ == {i \in 1..Min(Len(a), Len(b)) : a[i] # b[i]}
    IN  IF differ = {} THEN Len(a) < Len(b)
        ELSE LET first == CHOOSE i \in differ : \A j \in differ : i <= j
             IN  a[first] < b[first]

(* ------------------------------------------------------------------ *)
(* Program constants                                                    *)
(* ------------------------------------------------------------------ *)
SAVE_DIR == <<115, 117, 98, 109, 105, 115, 115, 105, 111, 110, 115>>

Mensetsu == <<38754, 25509>>
Touron == <<35342, 35542>>
MogiJugyou == <<27169, 25836, 25480, 26989>>
Gansho == <<39000, 26360>>
Shouronbun == <<23567, 35542, 25991>>

MODULES == {Mensetsu, Touron, MogiJugyou, Gansho, Shouronbun}

RUBRIC_COMMON ==
    PyDict(<<
      << <<20027, 20307, 24615, 65288, 33258, 20998, 12398, 21028, 26029,
           12364, 20986, 12390, 12356, 12427, 12363, 65289>>, PyInt(5) >>,
      << <<26681, 25312, 65288, 20107, 23455, 12539, 20307, 39443, 12539,
           20855, 20307, 65289>>, PyInt(5) >>,
      << <<25509, 32154, 65288, 29694, 22580, 35506, 38988, 65295, 20182,
           32773, 65295, 24441, 21106, 12408, 12398, 25509, 32154, 65289>>,
         PyInt(5) >>,
      << <<20877, 29694, 24615, 65288, 21516, 27096, 29366, 27841, 12391,
           12418, 20351, 12360, 12427, 24418, 65289>>, PyInt(5) >>,
      << <<20253, 36948, 65288, 31777, 28500, 12373, 12539, 35542, 29702,
           12539, 35501, 12415, 12420, 12377, 12373, 65289>>, PyInt(5) >>
    >>)

KeyTimestamp == <<116, 105, 109, 101, 115, 116, 97, 109, 112>>
KeyModule == <<109, 111, 100, 117, 108, 101>>
KeyUserText == <<117, 115, 101, 114, 95, 116, 101, 120, 116>>
KeyAiText == <<97, 105, 95, 116, 101, 120, 116>>
KeyMeta == <<109, 101, 116, 97>>
KeyRubricCommon == <<114, 117, 98, 114, 105, 99, 95, 99, 111, 109, 109, 111, 110>>

(* ------------------------------------------------------------------ *)
(* datetime.now().strftime("%Y%m%d_%H%M%S")                             *)
(* The clock counts seconds of local time from 2026-11-01 00:00:00.    *)
(* ------------------------------------------------------------------ *)
Digit(d) == 48 + d
Pad2(n) == <<Digit((n \div 10) % 10), Digit(n % 10)>>
Pad4(n) == <<Digit((n \div 1000) % 10), Digit((n \div 100) % 10),
             Digit((n \div 10) % 10), Digit(n % 10)>>

strftime(clock) ==
    LET day == 1 + (clock \div 86400)
        sec == clock % 86400
    IN  Pad4(2026) \o Pad2(11) \o Pad2(day) \o <<95>>
        \o Pad2(sec \div 3600) \o Pad2((sec % 3600) \div 60) \o Pad2(sec % 60)

(* a file name that leaves the module out *)
FileNameNoModule(timestamp, module) ==
    timestamp \o <<46, 106, 115, 111, 110>>

(* f"{timestamp}_{module}.json" *)
FileName(timestamp, module) ==
    timestamp \o <<95>> \o module \o <<46, 106, 115, 111, 110>>

(* os.path.join(SAVE_DIR, filename) *)
PathJoin(dir, filename) == dir \o <<47>> \o filename

(* os.path.basename(p): what follows the last "/" *)
BaseName(p) ==
    LET slashes == {i \in 1..Len(p) : p[i] = 47}
    IN  IF slashes = {} THEN p
        ELSE SubSeq(p, (CHOOSE i \in slashes : \A j \in slashes : j <= i) + 1, Len(p))

(* ------------------------------------------------------------------ *)
(* json.dump(data, f, ensure_ascii=False, indent=2)                     *)
(* ------------------------------------------------------------------ *)
Punct(c) == [t |-> "punct", c |-> c]
StrChunk(body) == [t |-> "string", s |-> body]
NumChunk(digits) == [t |-> "number", s |-> digits]
IsPunct(k, c) == k.t = "punct" /\ k.c = c

HexDigit(d) == IF d < 10 THEN 48 + d ELSE 97 + (d - 10)

(* json.encoder.ESCAPE with ensure_ascii=False: only the quote, the      *)
(* backslash and the control characters are escaped                      *)
EscapeChar(c) ==
    CASE c = 34 -> <<92, 34>>
      [] c = 92 -> <<92, 92>>
      [] c = 10 -> <<92, 110>>
      [] c = 13 -> <<92, 114>>
      [] c = 9  -> <<92, 116>>
      [] c = 8  -> <<92, 98>>
      [] c = 12 -> <<92, 102>>
      [] c < 32 /\ c \notin {8, 9, 10, 12, 13}
                -> <<92, 117, 48, 48, HexDigit(c \div 16), HexDigit(c % 16)>>
      [] OTHER  -> <<c>>

RECURSIVE EscapeFrom(_, _)
EscapeFrom(s, i) ==
    IF i > Len(s) THEN <<>> ELSE EscapeChar(s[i]) \o EscapeFrom(s, i + 1)

EscapeStr(s) ==
    IF \A i \in 1..Len(s) : s[i] >= 32 /\ s[i] # 34 /\ s[i] # 92
    THEN s
    ELSE EscapeFrom(s, 1)

(* int.__repr__ *)
RECURSIVE NatRepr(_)
NatRepr(n) ==
    IF n < 10 THEN <<Digit(n)>> ELSE NatRepr(n \div 10) \o <<Digit(n % 10)>>

IntRepr(n) == IF n < 0 THEN <<45>> \o NatRepr(0 - n) ELSE NatRepr(n)

(* json.encoder._make_iterencode: the pieces written for one value *)
RECURSIVE Encode(_), EncodeItems(_, _)
Encode(v) ==
    CASE v.t = "str"  -> <<StrChunk(EscapeStr(v.s))>>
      [] v.t = "int"  -> <<NumChunk(IntRepr(v.n))>>
      [] v.t = "dict" -> <<Punct("{")>> \o EncodeItems(v.kv, 1) \o <<Punct("}")>>

EncodeItems(kv, i) ==
    IF i > Len(kv) THEN <<>>
    ELSE (IF i > 1 THEN <<Punct(",")>> ELSE <<>>)
         \o <<StrChunk(EscapeStr(kv[i][1])), Punct(":")>>
         \o Encode(kv[i][2])
         \o EncodeItems(kv, i + 1)

json_dump(obj) == Encode(obj)

(* ------------------------------------------------------------------ *)
(* json.load(f)                                                         *)
(* ------------------------------------------------------------------ *)
HexValue(c) ==
    CASE c >= 48 /\ c <= 57  -> c - 48
      [] c >= 97 /\ c <= 102 -> c - 87
      [] c >= 65 /\ c <= 70  -> c - 55
      [] OTHER -> 0 - 1

(* json.decoder.py_scanstring (strict): the text between the quotes,     *)
(* read from position i on                                               *)
RECURSIVE DecodeFrom(_, _, _)
DecodeFrom(b, i, acc) ==
    IF i > Len(b) THEN [ok |-> TRUE, s |-> acc]
    ELSE LET c == b[i] IN
      IF c = 34 \/ c < 32 THEN [ok |-> FALSE, s |-> <<>>]
      ELSE IF c # 92 THEN DecodeFrom(b, i + 1, Append(acc, c))
      ELSE IF Len(b) < i + 1 THEN [ok |-> FALSE, s |-> <<>>]
      ELSE LET e == b[i + 1] IN
        CASE e = 34  -> DecodeFrom(b, i + 2, Append(acc, 34))
          [] e = 92  -> DecodeFrom(b, i + 2, Append(acc, 92))
          [] e = 47  -> DecodeFrom(b, i + 2, Append(acc, 47))
          [] e = 110 -> DecodeFrom(b, i + 2, Append(acc, 10))
          [] e = 114 -> DecodeFrom(b, i + 2, Append(acc, 13))
          [] e = 116 -> DecodeFrom(b, i + 2, Append(acc, 9))
          [] e = 98  -> DecodeFrom(b, i + 2, Append(acc, 8))
          [] e = 102 -> DecodeFrom(b, i + 2, Append(acc, 12))
          [] e = 117 ->
               IF Len(b) >= i + 5 /\ \A j \in (i + 2)..(i + 5) : HexValue(b[j]) >= 0
               THEN DecodeFrom(b, i + 6,
                               Append(acc, HexValue(b[i + 2]) * 4096
                                           + HexValue(b[i + 3]) * 256
                                           + HexValue(b[i + 4]) * 16
                                           + HexValue(b[i + 5])))
               ELSE [ok |-> FALSE, s |-> <<>>]
          [] OTHER -> [ok |-> FALSE, s |-> <<>>]

(* a literal without a backslash, a quote or a control character is its  *)
(* own value                                                             *)
DecodeStr(b) ==
    IF \A i \in 1..Len(b) : b[i] >= 32 /\ b[i] # 34 /\ b[i] # 92
    THEN [ok |-> TRUE, s |-> b]
    ELSE DecodeFrom(b, 1, <<>>)

(* json.scanner NUMBER_RE, integers only: an optional minus sign, then   *)
(* 0 or a digit string that does not start with 0                       *)
RECURSIVE DigitsValue(_, _)
DigitsValue(ds, acc) ==
    IF ds = <<>> THEN acc ELSE DigitsValue(Tail(ds), acc * 10 + (Head(ds) - 48))

DecodeInt(ds) ==
    LET neg == ds # <<>> /\ Head(ds) = 45
        body == IF neg THEN Tail(ds) ELSE ds
        wellFormed == /\ body # <<>>
                      /\ \A i \in 1..Len(body) : body[i] >= 48 /\ body[i] <= 57
                      /\ (Len(body) > 1 => body[1] # 48)
    IN  IF wellFormed
        THEN [ok |-> TRUE, n |-> IF neg THEN 0 - DigitsValue(body, 0) ELSE DigitsValue(body, 0)]
        ELSE [ok |-> FALSE, n |-> 0]

(* dict[key] = value: a repeated key keeps its place and takes the new value *)
DictSet(kv, key, value) ==
    IF \E i \in 1..Len(kv) : kv[i][1] = key
    THEN [i \in 1..Len(kv) |-> IF kv[i][1] = key THEN <<key, value>> ELSE kv[i]]
    ELSE Append(kv, <<key, value>>)

ParseFail == [ok |-> FALSE, val |-> PyNone, next |-> 0]

(* json.decoder.JSONObject and json.scanner.py_make_scanner._scan_once *)
RECURSIVE ParseValue(_, _), ParseMembers(_, _, _)
ParseValue(toks, i) ==
    IF i > Len(toks) THEN ParseFail
    ELSE LET k == toks[i] IN
      CASE k.t = "string" ->
             LET d == DecodeStr(k.s)
             IN  IF d.ok THEN [ok |-> TRUE, val |-> PyStr(d.s), next |-> i + 1]
                 ELSE ParseFail
        [] k.t = "number" ->
             LET d == DecodeInt(k.s)
             IN  IF d.ok THEN [ok |-> TRUE, val |-> PyInt(d.n), next |-> i + 1]
                 ELSE ParseFail
        [] k.t = "punct" ->
             IF k.c # "{" THEN ParseFail
             ELSE IF i + 1 <= Len(toks) /\ IsPunct(toks[i + 1], "}")
             THEN [ok |-> TRUE, val |-> PyDict(<<>>), next |-> i + 2]
             ELSE ParseMembers(toks, i + 1, <<>>)
        [] OTHER -> ParseFail

ParseMembers(toks, i, acc) ==
    IF i + 1 > Len(toks) THEN ParseFail
    ELSE IF toks[i].t # "string" \/ ~IsPunct(toks[i + 1], ":") THEN ParseFail
    ELSE LET key == DecodeStr(toks[i].s)
             v == ParseValue(toks, i + 2)
         IN  IF ~key.ok \/ ~v.ok \/ v.next > Len(toks) THEN ParseFail
             ELSE IF IsPunct(toks[v.next], "}")
             THEN [ok |-> TRUE, val |-> PyDict(DictSet(acc, key.s, v.val)),
                   next |-> v.next + 1]
             ELSE IF IsPunct(toks[v.next], ",")
             THEN ParseMembers(toks, v.next + 1, DictSet(acc, key.s, v.val))
             ELSE ParseFail

(* json.load: one value, then the end of the text; else JSONDecodeError *)
json_load(content) ==
    LET r == ParseValue(content, 1)
    IN  IF r.ok /\ r.next = Len(content) + 1
        THEN [ok |-> TRUE, val |-> r.val]
        ELSE [ok |-> FALSE, val |-> PyNone]

(* dict.get(key, default) *)
DictGet(d, key, default) ==
    IF \E i \in 1..Len(d.kv) : d.kv[i][1] = key
    THEN d.kv[CHOOSE i \in 1..Len(d.kv) : d.kv[i][1] = key][2]
    ELSE default

(* str.strip() leaves nothing: every character is whitespace *)
IsSpace(c) == c \in {9, 10, 11, 12, 13, 28, 29, 30, 31, 32, 133, 160, 12288}
IsBlank(s) == \A i \in 1..Len(s) : IsSpace(s[i])

(* ------------------------------------------------------------------ *)
(* State                                                                *)
(* ------------------------------------------------------------------ *)
VARIABLES
    dirExists,   \* whether the directory SAVE_DIR exists
    fs,          \* the files of SAVE_DIR: path -> content
    now,         \* the local clock, in seconds
    log,         \* the save_submission calls made so far, in order
    last,        \* the store call a sequential caller made last, and its result
    sinceSave,   \* how many store calls the caller made since its last save
    hasKey,      \* whether OPENAI_API_KEY is set in the environment
    sess         \* the script run of each browser session

vars == <<dirExists, fs, now, log, last, sinceSave, hasKey, sess>>

(* ------------------------------------------------------------------ *)
(* The file system under SAVE_DIR                                       *)
(* ------------------------------------------------------------------ *)
Hole == [t |-> "hole"]

(* open(path, "w"): the file exists and is empty from here on *)
Truncate(files, path) ==
    [q \in (DOMAIN files) \cup {path} |-> IF q = path THEN <<>> ELSE files[q]]

(* write(2) of piece at offset off of an open file *)
WriteAt(content, off, piece) ==
    LET n == IF Len(content) > off + Len(piece) THEN Len(content)
             ELSE off + Len(piece)
    IN  [i \in 1..n |->
            IF i > off /\ i <= off + Len(piece) THEN piece[i - off]
            ELSE IF i <= Len(content) THEN content[i]
            ELSE Hole]

(* a write that leaves only the new file in the directory *)
WriteFileClobber(files, path, text) ==
    [q \in {path} |-> WriteAt(<<>>, 0, text)]

(* with open(path, "w") as f: json.dump(data, f), run to the end *)
WriteFile(files, path, text) ==
    [q \in (DOMAIN files) \cup {path} |->
        IF q = path THEN WriteAt(<<>>, 0, text) ELSE files[q]]

EndsWith(s, suffix) ==
    /\ Len(s) >= Len(suffix)
    /\ SubSeq(s, Len(s) - Len(suffix) + 1, Len(s)) = suffix

(* glob.glob(os.path.join(SAVE_DIR, "*.json")) *)
Glob(files) ==
    {q \in DOMAIN files :
        LET name == BaseName(q)
        IN  /\ q = PathJoin(SAVE_DIR, name)
            /\ EndsWith(name, <<46, 106, 115, 111, 110>>)
            /\ Head(name) # 46}

(* files.sort() without reverse=True *)
RECURSIVE SortForward(_)
SortForward(S) ==
    IF S = {} THEN <<>>
    ELSE LET low == CHOOSE x \in S : \A y \in S : y = x \/ StrLess(x, y)
         IN  <<low>> \o SortForward(S \ {low})

(* files.sort(reverse=True) *)
RECURSIVE SortReverse(_)
SortReverse(S) ==
    IF S = {} THEN <<>>
    ELSE LET top == CHOOSE x \in S : \A y \in S : y = x \/ StrLess(y, x)
         IN  <<top>> \o SortReverse(S \ {top})

(* files[:limit], limit > 0 *)
Slice(files, limit) == SubSeq(files, 1, Min(limit, Len(files)))

(* ------------------------------------------------------------------ *)
(* save_submission, list_submissions, load_submission                   *)
(* ------------------------------------------------------------------ *)
(* a record with user_text and ai_text taken for each other *)
SaveDataSwapped(timestamp, module, user_text, ai_text, meta) ==
    PyDict(<< <<KeyTimestamp, PyStr(timestamp)>>,
              <<KeyModule, PyStr(module)>>,
              <<KeyUserText, PyStr(ai_text)>>,
              <<KeyAiText, PyStr(user_text)>>,
              <<KeyMeta, meta>> >>)

SaveData(timestamp, module, user_text, ai_text, meta) ==
    PyDict(<< <<KeyTimestamp, PyStr(timestamp)>>,
              <<KeyModule, PyStr(module)>>,
              <<KeyUserText, PyStr(user_text)>>,
              <<KeyAiText, PyStr(ai_text)>>,
              <<KeyMeta, meta>> >>)

SavePath(timestamp, module) == PathJoin(SAVE_DIR, FileName(timestamp, module))

SaveCall(module, user_text, ai_text, meta, timestamp) ==
    [module |-> module, user_text |-> user_text, ai_text |-> ai_text,
     meta |-> meta, timestamp |-> timestamp,
     path |-> SavePath(timestamp, module)]

list_submissions(files, limit) == Slice(SortReverse(Glob(files)), limit)

load_submission(files, path) == json_load(files[path])

(* ------------------------------------------------------------------ *)
(* Inputs                                                               *)
(* ------------------------------------------------------------------ *)
TextA == <<20837, 21147, 65>>
TextQuoted == <<34, 92, 10, 1, 233>>
TextOut == <<20986, 21147, 65>>
MetaR5 == PyDict(<< << <<114>>, PyInt(5) >> >>)
MetaRubric == PyDict(<< <<KeyRubricCommon, RUBRIC_COMMON>> >>)

ModuleInputs == {Mensetsu, Touron, Gansho}

(* the arguments a sequential caller gives save_submission *)
SaveInputs ==
    { [module |-> Mensetsu, user_text |-> TextA, ai_text |-> TextOut, meta |-> MetaR5],
      [module |-> Mensetsu, user_text |-> TextQuoted, ai_text |-> <<>>,
       meta |-> PyDict(<<>>)],
      [module |-> Touron, user_text |-> TextA, ai_text |-> TextOut, meta |-> MetaR5],
      [module |-> Gansho, user_text |-> TextQuoted, ai_text |-> <<>>,
       meta |-> MetaR5] }

Sessions == {1, 2}
Idle == [pc |-> "idle", run |-> FALSE, saves |-> 0]

(* ------------------------------------------------------------------ *)
(* A sequential caller of the store                                     *)
(* ------------------------------------------------------------------ *)
Init ==
    /\ dirExists = FALSE
    /\ fs = <<>>
    /\ now = StartSecond
    /\ log = <<>>
    /\ last = [op |-> "none"]
    /\ sinceSave = 2
    /\ hasKey = TRUE
    /\ sess = [s \in Sessions |-> Idle]

Tick ==
    /\ now < StartSecond + MaxTicks
    /\ now' = now + 1
    /\ UNCHANGED <<dirExists, fs, log, last, sinceSave, hasKey, sess>>

SaveSubmission(module, user_text, ai_text, meta) ==
    LET timestamp == strftime(now)
        path == SavePath(timestamp, module)
        data == SaveData(timestamp, module, user_text, ai_text, meta)
    IN  /\ Len(log) < MaxSaves
        /\ dirExists' = TRUE
        /\ fs' = WriteFile(fs, path, json_dump(data))
        /\ log' = Append(log, SaveCall(module, user_text, ai_text, meta, timestamp))
        /\ last' = [op |-> "save", ret |-> path]
        /\ sinceSave' = 0
        /\ UNCHANGED <<now, hasKey, sess>>

(* a listing that removes the files beyond the limit *)
ListSubmissionsPruning(limit) ==
    /\ dirExists' = TRUE
    /\ last' = [op |-> "list", limit |-> limit, ret |-> list_submissions(fs, limit)]
    /\ fs' = [q \in {list_submissions(fs, limit)[i] :
                       i \in 1..Len(list_submissions(fs, limit))} |-> fs[q]]
    /\ sinceSave' = Min(sinceSave + 1, 2)
    /\ UNCHANGED <<now, log, hasKey, sess>>

ListSubmissions(limit) ==
    /\ dirExists' = TRUE
    /\ last' = [op |-> "list", limit |-> limit, ret |-> list_submissions(fs, limit)]
    /\ sinceSave' = Min(sinceSave + 1, 2)
    /\ UNCHANGED <<fs, now, log, hasKey, sess>>

LoadSubmission(path) ==
    /\ path \in DOMAIN fs
    /\ last' = [op |-> "load", path |-> path, ret |-> load_submission(fs, path)]
    /\ sinceSave' = Min(sinceSave + 1, 2)
    /\ UNCHANGED <<dirExists, fs, now, log, hasKey, sess>>

Next ==
    \/ Tick
    \/ \E x \in SaveInputs :
          SaveSubmission(x.module, x.user_text, x.ai_text, x.meta)
    \/ \E limit \in 1..MaxLimit : ListSubmissions(limit)
    \/ \E p \in DOMAIN fs : LoadSubmission(p)

Spec == Init /\ [][Next]_vars

(* ------------------------------------------------------------------ *)
(* The Streamlit script: one run per browser session, the sessions      *)
(* running as threads of one server process                             *)
(* ------------------------------------------------------------------ *)
TextBlank == <<32, 10>>
UIUserTexts == {TextA, TextBlank}
UIModules == {Mensetsu, Touron}
HistoryLimit == 50

Set(s, r) == sess' = [sess EXCEPT ![s] = r]

(* the runs that passed the checks of the run handler and have not yet   *)
(* reached open(path, "w")                                               *)
Pending == {s \in Sessions : sess[s].pc \in {"llm", "save"}}

(* lines 127-140: a widget event starts a run of the script.  The widget  *)
(* values of the run (module, user_text, run) are fixed from here on and *)
(* are used nowhere before the run handler, where the model draws them.  *)
Rerun(s) ==
    /\ sess[s].pc \in {"idle", "raised"}
    /\ Set(s, [pc |-> "history", run |-> FALSE, saves |-> 0, auto |-> FALSE])
    /\ UNCHANGED <<dirExists, fs, now, log, last, sinceSave, hasKey>>

(* lines 145-153: files = list_submissions(limit=50) and the selectbox *)
HistoryList(s) ==
    /\ sess[s].pc = "history"
    /\ LET files == list_submissions(fs, HistoryLimit)
       IN  IF files = <<>>
           THEN Set(s, [pc |-> "form", run |-> FALSE, saves |-> 0,
                        auto |-> sess[s].auto,
                        loaded |-> FALSE])
           ELSE \E index \in 1..Len(files) :
                  Set(s, [pc |-> "load", run |-> FALSE, saves |-> 0,
                          auto |-> sess[s].auto,
                          index |-> index, selected_path |-> files[index]])
    /\ dirExists' = TRUE
    /\ UNCHANGED <<fs, now, log, last, sinceSave, hasKey>>

(* lines 157-159: what the preview shows of a loaded record *)
Preview(data) ==
    [module |-> DictGet(data, KeyModule, PyNone),
     timestamp |-> DictGet(data, KeyTimestamp, PyNone),
     user_text |-> DictGet(data, KeyUserText, PyStr(<<>>)),
     ai_text |-> DictGet(data, KeyAiText, PyStr(<<>>))]

(* lines 154-166: data = load_submission(selected_path) and the preview; *)
(* an exception of json.load, or of data.get on a value that is no dict, *)
(* ends the run                                                          *)
HistoryLoad(s) ==
    /\ sess[s].pc = "load"
    /\ LET data == load_submission(fs, sess[s].selected_path)
       IN  IF ~data.ok
           THEN Set(s, [pc |-> "raised", run |-> FALSE, saves |-> 0,
                        at |-> "load_submission"])
           ELSE IF data.val.t # "dict"
           THEN Set(s, [pc |-> "raised", run |-> FALSE, saves |-> 0,
                        at |-> "data.get"])
           ELSE Set(s, [pc |-> "form", run |-> FALSE, saves |-> 0,
                        auto |-> sess[s].auto,
                        loaded |-> TRUE,
                        selected_path |-> sess[s].selected_path,
                        data |-> data.val, shown |-> Preview(data.val)])
    /\ UNCHANGED <<dirExists, fs, now, log, last, sinceSave, hasKey>>

(* the run handler without the check for a blank user text *)
FormNoBlankCheck(s) ==
    /\ sess[s].pc = "form"
    /\ \/ Set(s, Idle)
       \/ /\ ~sess[s].auto
          /\ \E module \in UIModules, user_text \in UIUserTexts :
               IF ~hasKey
               THEN Set(s, Idle)
               ELSE /\ Len(log) + Cardinality(Pending) < MaxSaves
                    /\ Set(s, [pc |-> "llm", run |-> TRUE, saves |-> 0,
                               module |-> module, user_text |-> user_text])
    /\ UNCHANGED <<dirExists, fs, now, log, last, sinceSave, hasKey>>

(* lines 168-183: the text area, the run button and its checks: the       *)
(* button is not pressed, or it is (never in a run that st.rerun()        *)
(* started) and the key and the text are checked.  After st.error the     *)
(* run ends like one without the button pressed.                          *)
Form(s) ==
    /\ sess[s].pc = "form"
    /\ \/ Set(s, Idle)
       \/ /\ ~sess[s].auto
          /\ \E module \in UIModules, user_text \in UIUserTexts :
               IF ~hasKey
               THEN Set(s, Idle)
               ELSE IF IsBlank(user_text)
               THEN Set(s, Idle)
               ELSE /\ Len(log) + Cardinality(Pending) < MaxSaves
                    /\ Set(s, [pc |-> "llm", run |-> TRUE, saves |-> 0,
                               module |-> module, user_text |-> user_text])
    /\ UNCHANGED <<dirExists, fs, now, log, last, sinceSave, hasKey>>

(* lines 184-188: ai_text = call_llm(...), which returns a text or raises *)
CallLlm(s) ==
    /\ sess[s].pc = "llm"
    /\ \/ \E ai_text \in {TextOut} :
            Set(s, [pc |-> "save", run |-> TRUE, saves |-> 0,
                    module |-> sess[s].module, user_text |-> sess[s].user_text,
                    ai_text |-> ai_text])
       \/ Set(s, [pc |-> "raised", run |-> TRUE, saves |-> 0, at |-> "call_llm"])
    /\ UNCHANGED <<dirExists, fs, now, log, last, sinceSave, hasKey>>

(* lines 191-196 and 70-84: save_submission up to open(path, "w") *)
SaveOpen(s) ==
    /\ sess[s].pc = "save"
    /\ LET timestamp == strftime(now)
           meta == PyDict(<< <<KeyRubricCommon, RUBRIC_COMMON>> >>)
           call == SaveCall(sess[s].module, sess[s].user_text, sess[s].ai_text,
                            meta, timestamp)
           data == SaveData(timestamp, sess[s].module, sess[s].user_text,
                            sess[s].ai_text, meta)
       IN  /\ dirExists' = TRUE
           /\ fs' = Truncate(fs, call.path)
           /\ log' = Append(log, call)
           /\ Set(s, [pc |-> "write", run |-> TRUE, saves |-> sess[s].saves + 1,
                      user_text |-> sess[s].user_text, ai_text |-> sess[s].ai_text,
                      path |-> call.path, text |-> json_dump(data), off |-> 0])
    /\ UNCHANGED <<now, last, sinceSave, hasKey>>

(* line 85: the buffer of f is full and is written out *)
SaveFlush(s) ==
    /\ sess[s].pc = "write"
    /\ Len(sess[s].text) - sess[s].off > BufferSize
    /\ LET piece == SubSeq(sess[s].text, sess[s].off + 1, sess[s].off + BufferSize)
       IN  fs' = [fs EXCEPT ![sess[s].path] = WriteAt(@, sess[s].off, piece)]
    /\ Set(s, [sess[s] EXCEPT !.off = @ + BufferSize])
    /\ UNCHANGED <<dirExists, now, log, last, sinceSave, hasKey>>

(* lines 84-87 and 197: leaving the with block writes the rest and closes; *)
(* save_submission returns path and st.success shows it                  *)
SaveClose(s) ==
    /\ sess[s].pc = "write"
    /\ Len(sess[s].text) - sess[s].off <= BufferSize
    /\ LET piece == SubSeq(sess[s].text, sess[s].off + 1, Len(sess[s].text))
       IN  fs' = [fs EXCEPT ![sess[s].path] = WriteAt(@, sess[s].off, piece)]
    /\ Set(s, [pc |-> "saved", run |-> TRUE, saves |-> sess[s].saves,
               success |-> sess[s].path])
    /\ UNCHANGED <<dirExists, now, log, last, sinceSave, hasKey>>

(* line 200: st.rerun() starts the script again, the button released *)
RerunAfterSave(s) ==
    /\ sess[s].pc = "saved"
    /\ Set(s, [pc |-> "history", run |-> FALSE, saves |-> 0, auto |-> TRUE])
    /\ UNCHANGED <<dirExists, fs, now, log, last, sinceSave, hasKey>>

Step(s) ==
    \/ Rerun(s)
    \/ HistoryList(s)
    \/ HistoryLoad(s)
    \/ Form(s)
    \/ CallLlm(s)
    \/ SaveOpen(s)
    \/ SaveFlush(s)
    \/ SaveClose(s)
    \/ RerunAfterSave(s)

UIInit ==
    /\ dirExists = FALSE
    /\ fs = <<>>
    /\ now = StartSecond
    /\ log = <<>>
    /\ last = [op |-> "none"]
    /\ sinceSave = 2
    /\ hasKey \in BOOLEAN
    /\ sess = [s \in Sessions |-> Idle]

UINext ==
    \/ Tick
    \/ \E s \in Sessions : Step(s)

UISpec == UIInit /\ [][UINext]_vars

(* ------------------------------------------------------------------ *)
(* The script over a store that holds one record of an earlier run and  *)
(* one unit that was tampered with or put there by another program      *)
(* ------------------------------------------------------------------ *)
EarlierTimestamp == strftime(StartSecond - 2)
EarlierPath == SavePath(EarlierTimestamp, Mensetsu)
EarlierText ==
    json_dump(SaveData(EarlierTimestamp, Mensetsu, TextA, TextOut, MetaR5))

ForeignContents ==
    { <<>>,
      SubSeq(EarlierText, 1, 1),
      SubSeq(EarlierText, 1, 7),
      SubSeq(EarlierText, 1, Len(EarlierText) - 1),
      <<Hole>>,
      json_dump(PyStr(TextA)),
      json_dump(PyDict(<<>>)),
      json_dump(PyDict(<< <<KeyUserText, PyStr(TextA)>>, <<KeyAiText, PyStr(TextOut)>> >>)),
      json_dump(PyDict(<< <<KeyTimestamp, PyStr(EarlierTimestamp)>>,
                          <<KeyModule, PyStr(Touron)>> >>)),
      json_dump(PyDict(<< <<KeyModule, PyStr(Touron)>>, <<KeyMeta, MetaR5>> >>)) }

TamperedInit ==
    /\ dirExists = TRUE
    /\ \E c \in ForeignContents, k \in {1, 3} :
         fs = (EarlierPath :> EarlierText)
              @@ (SavePath(strftime(StartSecond - k), Touron) :> c)
    /\ now = StartSecond
    /\ log = <<>>
    /\ last = [op |-> "none"]
    /\ sinceSave = 2
    /\ hasKey = TRUE
    /\ sess = [s \in Sessions |-> Idle]

TamperedNext ==
    \/ Tick
    \/ Step(1)

TamperedSpec == TamperedInit /\ [][TamperedNext]_vars

(* ------------------------------------------------------------------ *)
(* Properties                                                           *)
(* ------------------------------------------------------------------ *)
LastSave == log[Len(log)]

(* the record a save_submission call was given, with its timestamp *)
Written(c) == SaveData(c.timestamp, c.module, c.user_text, c.ai_text, c.meta)

(* the loaded value is a dict whose entries are those of the call c *)
Carries(val, c) ==
    /\ val.t = "dict"
    /\ DictGet(val, KeyModule, PyNone) = PyStr(c.module)
    /\ DictGet(val, KeyUserText, PyNone) = PyStr(c.user_text)
    /\ DictGet(val, KeyAiText, PyNone) = PyStr(c.ai_text)
    /\ DictGet(val, KeyMeta, PyNone) = c.meta

(* the identifier of a unit: the file name without its extension *)
Identifier(path) == SubSeq(BaseName(path), 1, Len(BaseName(path)) - 5)

(* C1: load_submission of the path that the save_submission call just     *)
(* before it returned gives a record whose module, user_text, ai_text    *)
(* and meta are the arguments of that call, and whose timestamp is a     *)
(* non-empty string, the timestamp the file name starts with.            *)
C1_RoundTrip ==
    (last.op = "load" /\ sinceSave = 1 /\ last.path = LastSave.path) =>
        /\ last.ret.ok
        /\ Carries(last.ret.val, LastSave)
        /\ LET ts == DictGet(last.ret.val, KeyTimestamp, PyNone)
           IN  /\ ts.t = "str"
               /\ ts.s # <<>>
               /\ BaseName(last.path) = FileName(ts.s, LastSave.module)

(* a load right after the second save, of a text with a quote, a         *)
(* backslash, a newline, a control character and a non-ASCII character   *)
C1_Witness ==
    /\ last.op = "load"
    /\ sinceSave = 1
    /\ last.path = LastSave.path
    /\ LastSave.user_text = TextQuoted
    /\ Len(log) = 2

(* C2 as stated: the content at every location save_submission returned   *)
(* is still the content that call wrote, whatever was called since.       *)
C2_Immutable ==
    \A i \in 1..Len(log) :
        /\ log[i].path \in DOMAIN fs
        /\ fs[log[i].path] = json_dump(Written(log[i]))

(* C2 amended: the content at a location save_submission returned is      *)
(* still the content that call wrote, unless a later save_submission     *)
(* produced the same identifier (same module, same second); list and     *)
(* load never change it.                                                 *)
C2_ImmutableUnlessSameIdentifier ==
    \A i \in 1..Len(log) :
        (\A j \in (i + 1)..Len(log) : log[j].path # log[i].path) =>
            /\ log[i].path \in DOMAIN fs
            /\ fs[log[i].path] = json_dump(Written(log[i]))

(* two saves at different locations, and loads and listings after them *)
C2_Witness ==
    /\ Len(log) = 2
    /\ log[1].path # log[2].path
    /\ last.op = "load"
    /\ sinceSave = 2

(* C3: list_submissions(limit) returns at most limit entries, and of two   *)
(* adjacent entries the earlier one's identifier is not smaller than the  *)
(* later one's.                                                           *)
C3_ListBoundedAndSorted ==
    last.op = "list" =>
        /\ Len(last.ret) <= last.limit
        /\ \A i \in 1..(Len(last.ret) - 1) :
              ~StrLess(Identifier(last.ret[i]), Identifier(last.ret[i + 1]))

(* a listing of two units *)
C3_Witness ==
    /\ last.op = "list"
    /\ Len(last.ret) = 2
    /\ Cardinality(DOMAIN fs) = 2
    /\ last.ret[1] # last.ret[2]

(* C4 as stated: list_submissions(1) right after a save_submission         *)
(* returns exactly the location just written, whose load yields the       *)
(* arguments of that save.                                                *)
C4_MostRecentFirst ==
    (last.op = "list" /\ last.limit = 1 /\ sinceSave = 1) =>
        /\ last.ret = <<LastSave.path>>
        /\ load_submission(fs, last.ret[1]).ok
        /\ Carries(load_submission(fs, last.ret[1]).val, LastSave)

(* the save_submission calls so far all got the same timestamp and were   *)
(* given pairwise distinct modules                                        *)
SameSecondDistinctModules ==
    /\ Len(log) >= 1
    /\ \A i, j \in 1..Len(log) :
          /\ log[i].timestamp = log[j].timestamp
          /\ (i # j => log[i].module # log[j].module)

(* C5: after N saves of pairwise distinct modules in one second, starting  *)
(* from the empty store, list_submissions(N) returns N distinct           *)
(* locations, those of the N saves, and the load of each gives the        *)
(* module, user_text and ai_text of the save with that module.            *)
C5_SameSecondDistinctModules ==
    (last.op = "list" /\ last.limit = Len(log) /\ SameSecondDistinctModules) =>
        /\ Len(last.ret) = Len(log)
        /\ {last.ret[i] : i \in 1..Len(last.ret)} = {log[i].path : i \in 1..Len(log)}
        /\ Cardinality({log[i].path : i \in 1..Len(log)}) = Len(log)
        /\ \A i \in 1..Len(log) :
              /\ log[i].path \in DOMAIN fs
              /\ load_submission(fs, log[i].path).ok
              /\ Carries(load_submission(fs, log[i].path).val, log[i])

(* MaxSaves saves of distinct modules in one second, then the listing *)
C5_Witness ==
    /\ last.op = "list"
    /\ last.limit = Len(log)
    /\ SameSecondDistinctModules
    /\ Len(log) = MaxSaves

(* C8: a save_submission call that writes identifier I leaves every unit   *)
(* with another identifier as it was, and the store afterwards holds      *)
(* the units it held before and the one at I.                             *)
C8_SaveFrame ==
    [][Len(log') = Len(log) + 1 =>
         LET c == log'[Len(log')]
         IN  /\ last'.ret = c.path
             /\ Identifier(c.path) = c.timestamp \o <<95>> \o c.module
             /\ DOMAIN fs' = (DOMAIN fs) \cup {c.path}
             /\ \A q \in DOMAIN fs : q # c.path => fs'[q] = fs[q]]_vars

(* a save into a store that holds another unit *)
C8_Witness ==
    /\ last.op = "save"
    /\ Cardinality(DOMAIN fs) = 2

(* C6 as stated: a load_submission in the history panel never sees an      *)
(* empty, partial or mixed content: it fails on no unit written by        *)
(* save_submission, and what it returns is the record of a save of that   *)
(* location.                                                              *)
C6_NoTornRead ==
    \A s \in Sessions :
        /\ ~(sess[s].pc = "raised" /\ sess[s].at = "load_submission")
        /\ (sess[s].pc = "form" /\ sess[s].loaded) =>
              \E i \in 1..Len(log) :
                  /\ log[i].path = sess[s].selected_path
                  /\ sess[s].data = Written(log[i])

IsValidUnit(content) == json_load(content).ok

(* C7 as stated: with a valid record and a unit of invalid content in the  *)
(* store, no run of the history panel ends in an exception of             *)
(* load_submission, whichever entry is selected.                          *)
C7_CorruptTolerated ==
    ((\E q \in DOMAIN fs : IsValidUnit(fs[q])) /\ (\E q \in DOMAIN fs : ~IsValidUnit(fs[q])))
        => \A s \in Sessions :
              ~(sess[s].pc = "raised" /\ sess[s].at = "load_submission")

(* C9 as stated: the record load_submission returns for a unit that is     *)
(* valid but lacks fields has meta a mapping and timestamp and module     *)
(* strings, and the preview shows strings for module and timestamp.       *)
C9_DefaultsOnLoad ==
    \A s \in Sessions :
        (sess[s].pc = "form" /\ sess[s].loaded) =>
            /\ DictGet(sess[s].data, KeyMeta, PyNone).t = "dict"
            /\ DictGet(sess[s].data, KeyTimestamp, PyNone).t = "str"
            /\ DictGet(sess[s].data, KeyModule, PyNone).t = "str"
            /\ sess[s].shown.module.t = "str"
            /\ sess[s].shown.timestamp.t = "str"

(* C10: a run calls save_submission at most once, and only with the        *)
(* button pressed, the API key set, a user text that is not blank and a   *)
(* text returned by call_llm; no step of any other run changes the set    *)
(* or the content of the units; the success message is shown only after  *)
(* save_submission has returned its path.                                 *)
C10_CreateOnce ==
    [][/\ \A s \in Sessions : sess'[s].saves <= 1
       /\ (fs' # fs \/ log' # log) =>
            \E s \in Sessions :
                /\ sess'[s] # sess[s]
                /\ sess[s].pc \in {"save", "write"}
                /\ sess[s].run
                /\ hasKey
                /\ ~IsBlank(sess[s].user_text)
                /\ sess[s].ai_text \in {TextOut}
       /\ \A s \in Sessions :
            (sess'[s].pc = "saved" /\ sess[s].pc # "saved") =>
                /\ sess[s].pc = "write"
                /\ sess'[s].saves = 1
                /\ sess'[s].success = sess[s].path
                /\ sess'[s].success \in DOMAIN fs'
                /\ \E i \in 1..Len(log) : log[i].path = sess'[s].success]_vars

(* a run that saved and shows the success message *)
C10_Witness ==
    \E s \in Sessions :
        /\ sess[s].pc = "saved"
        /\ sess[s].success \in DOMAIN fs

====
